---- MODULE Spec2Model ----
(***************************************************************************)
(* Model of src/index.ts: a headless-browser search scraper with an HTTP   *)
(* endpoint (POST /search), a tool-invocation handler, a shared browser    *)
(* and page, a process-wide result array, a retry helper and a SIGINT      *)
(* handler.  Node runs the code on one event loop: the code between two    *)
(* awaits is one atomic step, and every await (launch, newPage, goto,      *)
(* evaluate, the retry delay, the file write, browser.close) is a point    *)
(* where other handlers interleave.                                        *)
(***************************************************************************)
EXTENDS Integers, Sequences, FiniteSets, TLC

\* ------------------------------------------------------------------ bounds

\* Result containers on a results page.
MaxContainers == 2
\* Largest maxRetries the retry harness passes to withRetry.
MaxAttempts == 4

\* ------------------------------------------------------- program constants

\* withRetry's default maxRetries (src/index.ts:191).
DefaultMaxRetries == 3

\* The requests (HTTP or tool) the process receives; each arrives at any
\* time, so two of them run one after the other or overlap.
Slots == {1, 2}

\* An absent JSON field (undefined).
NoValue == "undefined"

Engines == {"google", "duckduckgo", "youtube", "pubmed"}

\* The tool name of each engine (the case labels of the tool handler).
ToolEngine(name) ==
    CASE name = "search_google" -> "google"
      [] name = "search_duckduckgo" -> "duckduckgo"
      [] name = "search_youtube" -> "youtube"
      [] name = "search_pubmed" -> "pubmed"
      [] OTHER -> NoValue

ToolNames == {"search_google", "search_duckduckgo", "search_youtube", "search_pubmed"}

\* Inputs of the requests the environment sends.
QueryInputs == {NoValue, "statins"}
EngineInputs == Engines \cup {NoValue, "bing"}
ToolNameInputs == ToolNames \cup {"search_bing"}

\* JavaScript's !x for the values a request field takes here.
Falsy(v) == v = NoValue \/ v = ""

\* ------------------------------------------------------------- extraction

\* A result container is the set of the field elements it holds.  Text is a
\* sequence of tokens, so that '' is <<>> and concatenation is \o.
Elements == {"title", "link", "snippet", "authors", "journal"}
ContainerKinds == {Elements, Elements \ {"title"}}

RECURSIVE SeqsUpTo(_, _)
SeqsUpTo(S, n) ==
    IF n = 0 THEN {<<>>}
    ELSE LET shorter == SeqsUpTo(S, n - 1)
         IN  shorter \cup {Append(s, x) : s \in {t \in shorter : Len(t) = n - 1}, x \in S}

\* What an engine's selector may match on a results page: up to
\* MaxContainers containers, complete except possibly the first.
Doms ==
    {d \in SeqsUpTo(ContainerKinds, MaxContainers) : \A i \in 2..Len(d) : d[i] = Elements}

\* el?.textContent || ''
TextOf(c, el) == IF el \in c THEN <<el>> ELSE <<>>

\* One container mapped by the engine's callback inside page.evaluate.
ExtractDuckDuckGo(c) ==
    [title |-> TextOf(c, "title"),
     url |-> IF "title" \in c THEN <<"href">> ELSE <<>>,
     snippet |-> TextOf(c, "snippet")]

ExtractYouTube(c) ==
    [title |-> TextOf(c, "title"),
     url |-> IF "title" \in c THEN <<"https://www.youtube.com">> \o <<"href">> ELSE <<>>,
     snippet |-> TextOf(c, "snippet")]

ExtractPubMed(c) ==
    [title |-> TextOf(c, "title"),
     url |-> IF "link" \in c THEN <<"https://pubmed.ncbi.nlm.nih.gov">> \o <<"href">> ELSE <<>>,
     authors |-> TextOf(c, "authors"),
     journal |-> TextOf(c, "journal"),
     snippet |-> TextOf(c, "snippet")]

\* What page.evaluate(callback) yields for an engine on the matched
\* containers: [ok, value].  performGoogleSearch's callback binds the mapped
\* array to `results` and returns `searchResults`, a name the page does not
\* define, so the evaluation rejects with a ReferenceError whatever the page.
Evaluate(engine, dom) ==
    CASE engine = "google" -> [ok |-> FALSE, value |-> <<>>]
      [] engine = "duckduckgo" -> [ok |-> TRUE, value |-> [i \in 1..Len(dom) |-> ExtractDuckDuckGo(dom[i])]]
      [] engine = "youtube" -> [ok |-> TRUE, value |-> [i \in 1..Len(dom) |-> ExtractYouTube(dom[i])]]
      [] engine = "pubmed" -> [ok |-> TRUE, value |-> [i \in 1..Len(dom) |-> ExtractPubMed(dom[i])]]

\* The record addResult receives: {type, ...result, timestamp}.
StampRecord(engine, raw, now) ==
    [type |-> engine, fields |-> raw, timestamp |-> now]

\* results after the forEach of a search function has pushed the batch.
AddResults(store, engine, batch, now) ==
    store \o [i \in 1..Len(batch) |-> StampRecord(engine, batch[i], now)]

\* ------------------------------------------------------------------ retry

\* withRetry's loop condition.
RetryLoopCond(attempt, maxRetries) == attempt < maxRetries

\* A catch block that compares with > instead of ===.
RetryCatchOffByOne(attempt, maxRetries) ==
    [attempt |-> attempt + 1, rethrow |-> attempt + 1 > maxRetries]

\* withRetry's catch block: the new attempt count and whether it re-throws.
RetryCatch(attempt, maxRetries) ==
    [attempt |-> attempt + 1, rethrow |-> attempt + 1 = maxRetries]

\* ------------------------------------------------------------------ state

VARIABLES
    browser,    \* the global `browser`: 0 (undefined) or the launched browser's number
    page,       \* the global `page`: 0 (undefined) or the opened page's number
    nLaunched,  \* browsers chromium.launch has produced so far
    nPages,     \* pages browser.newPage has produced so far
    results,    \* the global `results` array
    proc,       \* proc[s]: the request running in slot s (its inputs, position, outcome)
    nreq,       \* requests accepted so far; also the clock behind new Date()
    closing,    \* browsers whose close() the SIGINT handler is awaiting
    closed,     \* browsers the SIGINT handler has closed
    status,     \* "running", "exited" (process.exit in the SIGINT handler) or "crashed"
    orphans,    \* launches still pending when the SIGINT handler called process.exit
    rt          \* the retry harness: one call of withRetry on an arbitrary operation

mainVars == <<browser, page, nLaunched, nPages, results, proc, nreq, closing, closed, status, orphans>>
vars == <<browser, page, nLaunched, nPages, results, proc, nreq, closing, closed, status, orphans, rt>>

\* A free slot.
Idle ==
    [kind |-> "none", query |-> NoValue, engine |-> NoValue, pc |-> "idle",
     phase |-> "op", attempt |-> 0,
     resp |-> <<>>, body |-> <<>>, out |-> "none",
     own |-> <<>>, dom |-> <<>>, evald |-> FALSE,
     err |-> "none"]

\* The harness before withRetry is called.
RtIdle ==
    [pc |-> "idle", max |-> 0, attempt |-> 0, calls |-> 0, hist |-> <<>>, result |-> NoValue]

Init ==
    /\ browser = 0
    /\ page = 0
    /\ nLaunched = 0
    /\ nPages = 0
    /\ results = <<>>
    /\ proc = [s \in Slots |-> Idle]
    /\ nreq = 0
    /\ closing = {}
    /\ closed = {}
    /\ status = "running"
    /\ orphans = 0
    /\ rt = RtIdle

\* ------------------------------------------------- handlers: the sync parts

\* A handler that has produced its outcome.
Finish(r) == [r EXCEPT !.pc = "done"]

\* safePageNavigation(page, url): page.goto is called on the page
\* ensureBrowser returned.
StartNav(r, pg) == [r EXCEPT !.pc = "nav"]

\* The catch that receives an error thrown while request r runs: the HTTP
\* handler's catch answers 500; the tool handler's first ensureBrowser is
\* outside every try, so its error rejects the handler's promise; inside
\* withRetry the catch block counts the attempt and re-throws on the last
\* one into the case's catch, which returns an isError result.  err is the
\* error the handler ends with; dom and evald describe the pipeline run in
\* progress, and a retry starts a new one.
Throw(r, kind) ==
    LET e == [r EXCEPT !.err = kind]
    IN  IF e.kind = "http"
        THEN Finish([e EXCEPT !.resp = Append(@, 500)])
        ELSE IF e.phase = "pre"
        THEN Finish([e EXCEPT !.out = "rejected"])
        ELSE LET c == RetryCatch(e.attempt, DefaultMaxRetries)
             IN  IF c.rethrow
                 THEN Finish([e EXCEPT !.attempt = c.attempt, !.out = "isError"])
                 ELSE [e EXCEPT !.attempt = c.attempt, !.pc = "delay", !.err = "none",
                                !.dom = <<>>, !.evald = FALSE]

RECURSIVE ensureBrowser(_, _, _)

\* withRetry's while loop at its head: call the operation (a search function,
\* which starts with ensureBrowser) or fall out to the final throw.
RetryLoop(r, b, pg) ==
    IF RetryLoopCond(r.attempt, DefaultMaxRetries)
    THEN ensureBrowser([r EXCEPT !.phase = "op"], b, pg)
    ELSE Finish([r EXCEPT !.err = "maxretries", !.out = "isError"])

\* The tool handler's switch on request.params.name.
ToolDispatch(r, b, pg) ==
    IF r.engine \in ToolNames
    THEN RetryLoop([r EXCEPT !.attempt = 0], b, pg)
    ELSE Finish([r EXCEPT !.out = "isError"])

\* ensureBrowser has returned page pg to its caller.
AfterEnsure(r, b, pg) ==
    IF r.phase = "pre" THEN ToolDispatch(r, b, pg) ELSE StartNav(r, pg)

\* ensureBrowser from `if (!page)` on.
EnsurePage(r, b, pg) ==
    IF pg = 0 THEN [r EXCEPT !.pc = "newPage"] ELSE AfterEnsure(r, b, pg)

\* ensureBrowser from its first line, with the globals as they are now.
ensureBrowser(r, b, pg) ==
    IF b = 0
    THEN [r EXCEPT !.pc = "launch"]
    ELSE EnsurePage(r, b, pg)

\* The engine whose search function request r runs.
EngineOf(r) == IF r.kind = "tool" THEN ToolEngine(r.engine) ELSE r.engine

\* A handler whose switch has no default case.
ValidateNoDefault(query, engine) ==
    IF Falsy(query) \/ Falsy(engine) THEN "missing" ELSE "ok"

\* The HTTP handler's checks: "missing" (400 before the store is touched),
\* "invalid" (400 from the switch's default, after the store is cleared) or
\* "ok".
Validate(query, engine) ==
    IF Falsy(query) \/ Falsy(engine) THEN "missing"
    ELSE IF engine \in Engines THEN "ok"
    ELSE "invalid"

Free(s) == proc[s].pc = "idle"

Accepting == status = "running"

\* A withRetry that awaits the operation without returning its value, and
\* so goes round the loop again after a success.
AfterSearchNoReturn(r, store) ==
    IF r.kind = "http"
    THEN [r EXCEPT !.resp = Append(@, 200), !.body = store, !.pc = "write"]
    ELSE IF r.attempt + 1 < DefaultMaxRetries
    THEN [r EXCEPT !.attempt = @ + 1, !.pc = "delay"]
    ELSE Finish([r EXCEPT !.out = "ok"])

\* What follows a search function's return: the HTTP handler builds the
\* payload from the global results, starts fs.writeFile and answers with
\* res.json; the tool handler returns the batch as text.
AfterSearch(r, store) ==
    IF r.kind = "http"
    THEN [r EXCEPT !.resp = Append(@, 200), !.body = store, !.pc = "write"]
    ELSE Finish([r EXCEPT !.out = "ok"])

\* ---------------------------------------------------------------- actions

\* app.post('/search') up to its first await.
HttpRequest(s, q, e) ==
    /\ Accepting
    /\ Free(s)
    /\ nreq' = nreq + 1
    /\ LET r == [Idle EXCEPT !.kind = "http", !.query = q, !.engine = e]
           v == Validate(q, e)
       IN  /\ results' = IF v = "missing" THEN results ELSE <<>>
           /\ proc' = [proc EXCEPT ![s] =
                  IF v = "ok" THEN ensureBrowser(r, browser, page)
                  ELSE Finish([r EXCEPT !.resp = Append(@, 400)])]
    /\ UNCHANGED <<browser, page, nLaunched, nPages, closing, closed, status, orphans, rt>>

\* The tool handler up to its first await: ensureBrowser, outside any try.
ToolRequest(s, name) ==
    /\ Accepting
    /\ Free(s)
    /\ nreq' = nreq + 1
    /\ LET r == [Idle EXCEPT !.kind = "tool", !.query = "statins", !.engine = name,
                             !.phase = "pre"]
       IN  proc' = [proc EXCEPT ![s] = ensureBrowser(r, browser, page)]
    /\ UNCHANGED <<browser, page, nLaunched, nPages, results, closing, closed, status, orphans, rt>>

\* chromium.launch resolves: `browser = ...`, then ensureBrowser goes on.
LaunchOk(s) ==
    /\ status = "running"
    /\ proc[s].pc = "launch"
    /\ nLaunched' = nLaunched + 1
    /\ browser' = nLaunched + 1
    /\ proc' = [proc EXCEPT ![s] = EnsurePage(proc[s], browser', page)]
    /\ UNCHANGED <<page, nPages, results, nreq, closing, closed, status, orphans, rt>>

\* chromium.launch rejects.
LaunchFail(s) ==
    /\ status = "running"
    /\ proc[s].pc = "launch"
    /\ proc' = [proc EXCEPT ![s] = Throw(proc[s], "launch")]
    /\ UNCHANGED <<browser, page, nLaunched, nPages, results, nreq, closing, closed, status, orphans, rt>>

\* browser.newPage resolves: `page = ...; return page`.
NewPageOk(s) ==
    /\ status = "running"
    /\ proc[s].pc = "newPage"
    /\ nPages' = nPages + 1
    /\ page' = nPages + 1
    /\ proc' = [proc EXCEPT ![s] = AfterEnsure(proc[s], browser, page')]
    /\ UNCHANGED <<browser, nLaunched, results, nreq, closing, closed, status, orphans, rt>>

\* browser.newPage rejects.
NewPageFail(s) ==
    /\ status = "running"
    /\ proc[s].pc = "newPage"
    /\ proc' = [proc EXCEPT ![s] = Throw(proc[s], "newPage")]
    /\ UNCHANGED <<browser, page, nLaunched, nPages, results, nreq, closing, closed, status, orphans, rt>>

\* page.goto resolves; page.evaluate is called.
NavOk(s) ==
    /\ status = "running"
    /\ proc[s].pc = "nav"
    /\ proc' = [proc EXCEPT ![s].pc = "eval"]
    /\ UNCHANGED <<browser, page, nLaunched, nPages, results, nreq, closing, closed, status, orphans, rt>>

\* page.goto rejects: safePageNavigation logs and re-throws.
NavFail(s) ==
    /\ status = "running"
    /\ proc[s].pc = "nav"
    /\ proc' = [proc EXCEPT ![s] = Throw(proc[s], "nav")]
    /\ UNCHANGED <<browser, page, nLaunched, nPages, results, nreq, closing, closed, status, orphans, rt>>

\* page.evaluate settles with what the engine's callback does on the
\* containers dom its selector matches in the page as rendered now; on a
\* value the batch is pushed to results and the caller goes on, on a
\* rejection the error is thrown.
EvalDone(s, dom) ==
    /\ status = "running"
    /\ proc[s].pc = "eval"
    /\ LET r == proc[s]
           engine == EngineOf(r)
           ev == Evaluate(engine, dom)
           seen == [r EXCEPT !.dom = dom, !.evald = TRUE]
           store == AddResults(results, engine, ev.value, nreq)
       IN  IF ev.ok
           THEN /\ results' = store
                /\ proc' = [proc EXCEPT ![s] =
                       AfterSearch([seen EXCEPT !.own = AddResults(@, engine, ev.value, nreq)],
                                   store)]
           ELSE /\ results' = results
                /\ proc' = [proc EXCEPT ![s] = Throw(seen, "reference")]
    /\ UNCHANGED <<browser, page, nLaunched, nPages, nreq, closing, closed, status, orphans, rt>>

\* page.evaluate rejects for a reason of the browser's (the page navigated
\* away or closed under it).
EvalFail(s) ==
    /\ status = "running"
    /\ proc[s].pc = "eval"
    /\ proc' = [proc EXCEPT ![s] = Throw(proc[s], "context")]
    /\ UNCHANGED <<browser, page, nLaunched, nPages, results, nreq, closing, closed, status, orphans, rt>>

\* withRetry's delay elapses: warn, and back to the head of the loop.
DelayDone(s) ==
    /\ status = "running"
    /\ proc[s].pc = "delay"
    /\ proc' = [proc EXCEPT ![s] = RetryLoop(proc[s], browser, page)]
    /\ UNCHANGED <<browser, page, nLaunched, nPages, results, nreq, closing, closed, status, orphans, rt>>

\* fs.writeFile calls back without an error.
WriteOk(s) ==
    /\ status = "running"
    /\ proc[s].pc = "write"
    /\ proc' = [proc EXCEPT ![s] = Finish(proc[s])]
    /\ UNCHANGED <<browser, page, nLaunched, nPages, results, nreq, closing, closed, status, orphans, rt>>

\* fs.writeFile calls back with an error: the callback logs it and calls
\* res.status(500).json(...) on the response res.json already sent; that
\* throws ERR_HTTP_HEADERS_SENT inside the callback, an uncaught exception,
\* which ends the process.
WriteFail(s) ==
    /\ status = "running"
    /\ proc[s].pc = "write"
    /\ proc' = [proc EXCEPT ![s] = Finish([proc[s] EXCEPT !.resp = Append(@, 500)])]
    /\ status' = "crashed"
    /\ UNCHANGED <<browser, page, nLaunched, nPages, results, nreq, closing, closed, orphans, rt>>

\* process.exit() in the SIGINT handler: the process and its memory are
\* gone (every handler in flight with it); what stays is the browsers, which
\* are processes of their own, and the launches that were still pending.
Exit ==
    /\ status' = "exited"
    /\ orphans' = Cardinality({s \in Slots : proc[s].pc = "launch"})
    /\ browser' = 0
    /\ page' = 0
    /\ results' = <<>>
    /\ proc' = [s \in Slots |-> Idle]
    /\ nreq' = 0
    /\ closing' = {}
    /\ UNCHANGED <<nLaunched, nPages, rt>>

\* process.on('SIGINT') up to its await: close the browser the global holds
\* now, or exit at once when it holds none.
Sigint ==
    /\ status = "running"
    /\ IF browser # 0
       THEN /\ closing' = closing \cup {browser}
            /\ UNCHANGED <<browser, page, nLaunched, nPages, results, proc, nreq, closed,
                           status, orphans, rt>>
       ELSE /\ Exit
            /\ closed' = closed

\* browser.close resolves: process.exit().
CloseDone(b) ==
    /\ status = "running"
    /\ b \in closing
    /\ closed' = closed \cup {b}
    /\ Exit

Next ==
    \/ \E s \in Slots, q \in QueryInputs, e \in EngineInputs : HttpRequest(s, q, e)
    \/ \E s \in Slots, name \in ToolNameInputs : ToolRequest(s, name)
    \/ \E s \in Slots : LaunchOk(s)
    \/ \E s \in Slots : LaunchFail(s)
    \/ \E s \in Slots : NewPageOk(s)
    \/ \E s \in Slots : NewPageFail(s)
    \/ \E s \in Slots : NavOk(s)
    \/ \E s \in Slots : NavFail(s)
    \/ \E s \in Slots, dom \in Doms : EvalDone(s, dom)
    \/ \E s \in Slots : EvalFail(s)
    \/ \E s \in Slots : DelayDone(s)
    \/ \E s \in Slots : WriteOk(s)
    \/ \E s \in Slots : WriteFail(s)
    \/ Sigint
    \/ \E b \in closing : CloseDone(b)

Spec == Init /\ [][Next]_vars

\* ------------------------------------------------ withRetry on its own

\* What the operation handed to withRetry may resolve to or reject with.
Values == {"v1", "v2"}
Errors == {"e1", "e2"}

\* withRetry at the head of its while loop: call the operation, or fall out
\* of the loop to `throw new Error("Max retries reached")`.
RtLoop(h) ==
    IF RetryLoopCond(h.attempt, h.max)
    THEN [h EXCEPT !.pc = "await", !.calls = @ + 1]
    ELSE [h EXCEPT !.pc = "thrown", !.result = "Max retries reached"]

\* withRetry(operation, m) is called.
RtCall(m) ==
    /\ rt.pc = "idle"
    /\ rt' = RtLoop([rt EXCEPT !.max = m])
    /\ UNCHANGED mainVars

\* The operation resolves: `return await operation()`.
RtResolve(v) ==
    /\ rt.pc = "await"
    /\ rt' = [rt EXCEPT !.pc = "returned", !.result = v,
                        !.hist = Append(@, [ok |-> TRUE, v |-> v])]
    /\ UNCHANGED mainVars

\* The operation rejects: the catch block.
RtReject(e) ==
    /\ rt.pc = "await"
    /\ LET c == RetryCatch(rt.attempt, rt.max)
           h == [rt EXCEPT !.attempt = c.attempt,
                           !.hist = Append(@, [ok |-> FALSE, v |-> e])]
       IN  rt' = IF c.rethrow
                 THEN [h EXCEPT !.pc = "thrown", !.result = e]
                 ELSE [h EXCEPT !.pc = "delay"]
    /\ UNCHANGED mainVars

\* The delay elapses: warn, and back to the head of the loop.
RtDelayDone ==
    /\ rt.pc = "delay"
    /\ rt' = RtLoop(rt)
    /\ UNCHANGED mainVars

NextRetry ==
    \/ \E m \in 0..MaxAttempts : RtCall(m)
    \/ \E v \in Values : RtResolve(v)
    \/ \E e \in Errors : RtReject(e)
    \/ RtDelayDone

SpecRetry == Init /\ [][NextRetry]_vars

\* ----------------------------------------------------------------- claims

Succeeded(r) == r.out = "ok" \/ (r.resp # <<>> /\ r.resp[1] = 200)

\* The records a pipeline run of engine on the containers dom produces: one
\* per container, in order, of the engine's type, a missing element as ''.
RunProduced(own, engine, dom) ==
    /\ Len(own) = Len(dom)
    /\ \A i \in 1..Len(own) :
          /\ own[i].type = engine
          /\ own[i].timestamp > 0
          /\ \A f \in {"title", "snippet"} :
                own[i].fields[f] = (IF f \in dom[i] THEN <<f>> ELSE <<>>)

\* C1: withRetry ends only by returning the value of a successful call or by
\* throwing.  When it returns, the last call succeeded, every earlier call
\* failed, and the operation was called once per outcome (two failures then
\* a success: 3 calls).  When it throws with maxRetries > 0 the operation
\* was called exactly maxRetries times, all failed, and the error thrown is
\* the last call's; with maxRetries = 0 the operation was never called and
\* withRetry throws.
C1_RetryContract ==
    LET n == Len(rt.hist)
    IN  /\ rt.pc = "returned" =>
              /\ n >= 1
              /\ rt.calls = n
              /\ n <= rt.max
              /\ rt.hist[n].ok
              /\ rt.result = rt.hist[n].v
              /\ \A i \in 1..(n - 1) : ~rt.hist[i].ok
        /\ rt.pc = "thrown" =>
              /\ rt.calls = rt.max
              /\ n = rt.max
              /\ \A i \in 1..n : ~rt.hist[i].ok
              /\ rt.result = (IF n = 0 THEN "Max retries reached" ELSE rt.hist[n].v)
        /\ (rt.pc \in {"idle", "await", "delay"}) => rt.result = NoValue

\* An operation that failed twice and then succeeded.
C1_FailTwiceThenSucceed ==
    /\ rt.pc = "returned"
    /\ rt.calls = 3
    /\ rt.result = "v2"

\* C2: the results of a 200 response are exactly the records the request's
\* own pipeline run appended, in order.
C2_ResponseIsOwnRecords ==
    \A s \in Slots :
        (proc[s].kind = "http" /\ Succeeded(proc[s])) => proc[s].body = proc[s].own

\* C3: a request ends with a navigation failure only after the retry policy
\* has counted as many failed attempts as its cap allows.
C3_NavigationRetried ==
    \A s \in Slots :
        (proc[s].pc = "done" /\ proc[s].err = "nav") => proc[s].attempt = DefaultMaxRetries

\* C4: a pipeline run whose extraction ran on n matching containers has
\* appended exactly n records, in order, of the engine's type, with a
\* timestamp, a missing element as the empty string; and an HTTP request for
\* google on two containers is answered 200 with two google records.
C4_RunProducesOneRecordPerContainer ==
    \A s \in Slots :
        LET r == proc[s]
        IN  r.evald =>
              /\ RunProduced(r.own, EngineOf(r), r.dom)
              /\ (r.kind = "http" /\ r.engine = "google" /\ Len(r.dom) = 2) =>
                    /\ r.resp # <<>>
                    /\ r.resp[1] = 200
                    /\ Len(r.body) = 2
                    /\ \A i \in 1..2 : r.body[i].type = "google"

\* C5: every tool invocation ends by returning a result, and every POST
\* /search ends with exactly one response, of status 200, 400 or 500.
C5_EveryFailureBecomesAResponse ==
    \A s \in Slots :
        proc[s].pc = "done" =>
            /\ proc[s].kind = "tool" => proc[s].out \in {"ok", "isError"}
            /\ proc[s].kind = "http" =>
                  /\ Len(proc[s].resp) = 1
                  /\ proc[s].resp[1] \in {200, 400, 500}

\* C6: a POST /search whose query or engine is missing, or whose engine is
\* not one of the four, is answered 400 and is never in the pipeline: it
\* never awaits a launch, a page, a navigation or an extraction, and it
\* appends nothing.
C6_InvalidRequestRejected ==
    \A s \in Slots :
        LET r == proc[s]
        IN  (r.kind = "http" /\ (r.query = NoValue \/ r.engine \notin Engines)) =>
              /\ r.pc = "done"
              /\ r.resp = <<400>>
              /\ ~r.evald
              /\ r.own = <<>>

\* A request for an engine that is not registered, answered 400 while
\* another request is in the pipeline.
C6_UnknownEngineAnswered400 ==
    \E s \in Slots :
        /\ proc[s].kind = "http"
        /\ proc[s].query = "statins"
        /\ proc[s].engine = "bing"
        /\ proc[s].resp = <<400>>
        /\ \E t \in Slots : proc[t].pc = "nav"

\* C7: a request answered 200 gets no other response: no 500 is produced
\* or attempted for it, whatever the snapshot write does.
C7_WriteFailureOnlyLogged ==
    \A s \in Slots :
        (proc[s].kind = "http" /\ Succeeded(proc[s])) => proc[s].resp = <<200>>

\* C8: at most one browser is ever launched and at most one page opened.
C8_OneBrowserOnePage == nLaunched <= 1 /\ nPages <= 1

\* C9: when the process exits through the SIGINT handler, every browser
\* launched has been closed and no launch was still pending.
C9_BrowsersClosedBeforeExit ==
    status = "exited" => (\A b \in 1..nLaunched : b \in closed) /\ orphans = 0

\* C10: a request whose search attempts have all failed so far has appended
\* nothing to the store, and a request that succeeded has appended the
\* records of its one successful attempt, once.
C10_FailedAttemptsAppendNothing ==
    \A s \in Slots :
        LET r == proc[s]
        IN  IF Succeeded(r)
            THEN r.evald /\ RunProduced(r.own, EngineOf(r), r.dom)
            ELSE r.own = <<>>

\* A tool invocation that succeeded on its third attempt and appended two
\* records.
C10_ToolSucceededAfterRetries ==
    \E s \in Slots :
        /\ proc[s].kind = "tool"
        /\ proc[s].out = "ok"
        /\ proc[s].attempt = 2
        /\ Len(proc[s].own) = 2

====
